---- MODULE Spec2Model ----
(***************************************************************************)
(* OneBot V11 adapter (nonebot/adapters/onebot/v11/adapter.py): the         *)
(* connection registry, the webhook, the reverse and forward WebSocket     *)
(* handlers, the forward-link supervisor, the API call path and the event  *)
(* classifier, as one state machine.                                       *)
(* Every await of the source is a point where other tasks may run, so each *)
(* action is the code between two awaits of one task.                      *)
(* Assumptions on code outside this file:                                  *)
(*  - BaseAdapter.bot_connect(bot) stores bot in self.bots[bot.self_id]    *)
(*    and bot_disconnect(bot) removes self.bots[bot.self_id];              *)
(*  - asyncio.CancelledError is not a subclass of Exception (Python 3.8+). *)
(***************************************************************************)
EXTENDS Integers, Sequences, FiniteSets, TLC

\* ------------------------------------------------------------------ bounds
MaxRev == 2        \* reverse WebSocket handshakes that arrive
MaxLinks == 1      \* configured forward URLs
MaxAttempts == 2   \* transport connects one forward link tries
MaxCalls == 2      \* _call_api invocations
MaxCustom == 1     \* add_custom_model invocations

RevSocks == 1..MaxRev
Links == 1..MaxLinks
Callers == 1..MaxCalls
Seqs == 1..MaxCalls

Ids == {"a", "b"}
NoId == ""                      \* header absent (or empty): falsy in the source
GoodToken == "t"
Tokens == {"", GoodToken, "x"}  \* bearer token of a request, "" when absent
GoodSecret == "s"
Secrets == {"", GoodSecret, "x"} \* key a request was signed with, "" when unsigned

\* ------------------------------------------------------- values of the model
NoWs == [kind |-> "none", n |-> 0, e |-> 0]
RevWs(r) == [kind |-> "rev", n |-> r, e |-> 0]
FwdWs(l, e) == [kind |-> "fwd", n |-> l, e |-> e]

NoBot == [kind |-> "none", n |-> 0]
RevBot(r) == [kind |-> "rev", n |-> r]
FwdBot(l) == [kind |-> "fwd", n |-> l]
HttpBot == [kind |-> "http", n |-> 0]

\* An inbound frame: what websocket.receive() hands to json.loads.
\*   kind   "notjson" (json.loads raises), "nonobj" (JSON, not an object),
\*          "obj" (an object)
\*   post, detail, sub  the fields post_type, {post_type}_type, sub_type
\*                      ("" when absent)
\*   sid    the field self_id ("" when absent)
\*   seq    echo.seq (0 when the payload carries no echo)
\*   status the field status of an API result
\*   fits   the event models whose parse_obj accepts the object
Frame(kind, post, detail, sub, sid, seq, status, fits) ==
    [kind |-> kind, post |-> post, detail |-> detail, sub |-> sub, sid |-> sid,
     seq |-> seq, status |-> status, fits |-> fits]

BaseEvent == <<>>
MessageEvent == <<"message">>
PrivateMessageEvent == <<"message", "private">>
MetaEvent == <<"meta_event">>
LifecycleMetaEvent == <<"meta_event", "lifecycle">>

\* Adapter.event_models as the class body builds it: the paths at which an
\* event model is registered.
event_models == {MessageEvent, PrivateMessageEvent, MetaEvent, LifecycleMetaEvent}

NotJson == Frame("notjson", "", "", "", "", 0, "", {})
NonObject == Frame("nonobj", "", "", "", "", 0, "", {})
Result(s, st) == Frame("obj", "", "", "", "", s, st, {})
ConnectEvent(id) ==
    Frame("obj", "meta_event", "lifecycle", "connect", id, 0, "",
          {LifecycleMetaEvent, MetaEvent, BaseEvent})
EnableEvent(id) ==
    Frame("obj", "meta_event", "lifecycle", "enable", id, 0, "",
          {LifecycleMetaEvent, MetaEvent, BaseEvent})
FriendMessage(id) ==
    Frame("obj", "message", "private", "friend", id, 0, "",
          {PrivateMessageEvent, MessageEvent, BaseEvent})
BadEvent == Frame("obj", "message", "", "", "", 0, "", {})

\* A post_type that is no string: post_type + detail_type raises TypeError.
NotAString == "#"

\* The models a custom registration can add, and the paths looked up.
FriendMessageEvent == <<"message", "private", "friend">>
Segments == {"message", "private", "friend"}
Paths == UNION {[1..n -> Segments] : n \in 1..3}
CustomPaths == {p \in Paths : p[1] = "message"}
Queries == Paths \cup {<<"meta_event", "lifecycle", "connect">>}

\* The objects with a post_type handed to json_to_event in the runs of the
\* classifier.
ParseFrames ==
    {Frame("obj", "message", detail, sub, "a", 0, "", fits) :
        detail \in {"", "private"}, sub \in {"", "friend"},
        fits \in SUBSET {BaseEvent, MessageEvent, PrivateMessageEvent,
                         FriendMessageEvent}}
    \cup {Frame("obj", NotAString, "private", "friend", "a", 0, "",
                {BaseEvent, MessageEvent})}

\* websocket.receive() raising instead of returning a frame.
RecvError == Frame("error", "", "", "", "", 0, "", {})

Results == {Result(s, "ok") : s \in Seqs} \cup {Result(1, "failed")}

\* The frames a peer sends in the runs of the call path, of the connection
\* life cycle, and of the handshakes.
CallFrames ==
    {RecvError, NotJson, ConnectEvent("a"), FriendMessage("a")} \cup Results
ConnFrames ==
    {RecvError, NotJson, NonObject, BadEvent, Result(1, "ok"), EnableEvent("a"),
     FriendMessage("a")} \cup {ConnectEvent(id) : id \in Ids}

ShakeFrames == {RecvError, ConnectEvent("a")}
IngressFrames == {RecvError, ConnectEvent("a"), Result(1, "ok"), Result(2, "ok")}

NoFrame == Frame("none", "", "", "", "", 0, "", {})
NoEvent == [model |-> <<"none">>, sub |-> "", sid |-> ""]

VARIABLES
    config,       \* onebot_access_token, onebot_secret, api_root, the driver's kind
    connections,  \* Adapter.connections: identity -> WebSocket
    bots,         \* Adapter.bots: identity -> Bot
    rev,          \* the _handle_ws invocations
    fwd,          \* the _forward_ws tasks
    sup,          \* start_forward / stop_forward progress
    calls,        \* the _call_api invocations
    seq,          \* ResultStore: the next sequence number
    pending,      \* ResultStore: the pending calls
    last,         \* what the step read and did with it, when it is a receive step
    registered,   \* Adapter.event_models, as add_custom_model has extended it
    out           \* what the step returned, when it is a webhook or classifier call

vars == <<config, connections, bots, rev, fwd, sup, calls, seq, pending, last,
          registered, out>>


NoLast == [op |-> "none", n |-> 0, frame |-> NoFrame, sid |-> NoId, event |-> NoEvent]

NoOut == [op |-> "none"]

\* The configurations of the runs of the call path (identity "b" has an HTTP
\* API root, identity "a" has none), of the connection life cycle, of the
\* handshakes (an access token is configured), of the webhook and of the
\* classifier.
CallConfigs == [token : {GoodToken}, secret : {""}, api_root : {{"b"}}, forward : BOOLEAN]
ConnConfigs == [token : {"", GoodToken}, secret : {""}, api_root : {{}}, forward : BOOLEAN]
ShakeConfigs == [token : {GoodToken}, secret : {""}, api_root : {{}}, forward : BOOLEAN]
HttpConfigs ==
    [token : {"", GoodToken}, secret : {"", GoodSecret}, api_root : {{}},
     forward : {FALSE}]
PlainConfigs == [token : {""}, secret : {""}, api_root : {{}}, forward : {FALSE}]

\* ---------------------------------------------------------- pure functions

\* _check_access_token: the status of the rejection, 0 when the request passes.
\* tok is what get_auth_bearer extracts from the Authorization header.
CheckAccessToken(tok) ==
    IF config.token # "" /\ config.token # tok THEN 403 ELSE 0

\* The classification path post_type[.detail_type][.sub_type] as its segments.
EventName(f) ==
    <<f.post>> \o (IF f.detail # "" THEN <<f.detail>> ELSE <<>>)
               \o (IF f.sub # "" THEN <<f.sub>> ELSE <<>>)

RECURSIVE Prefixes(_, _)
\* StringTrie.prefixes: the registered paths that are a prefix of q, shortest first.
Prefixes(q, n) ==
    IF n > Len(q) THEN <<>>
    ELSE (IF SubSeq(q, 1, n) \in registered THEN <<SubSeq(q, 1, n)>> ELSE <<>>)
         \o Prefixes(q, n + 1)

Reverse(s) == [i \in 1..Len(s) |-> s[Len(s) + 1 - i]]

\* get_event_model returning the prefixes as the trie yields them.
GetEventModelUnreversed(q) == Prefixes(q, 1)

\* get_event_model: the prefixes, reversed (longest first), without the base Event.
GetEventModel(q) == Reverse(Prefixes(q, 1))

RECURSIVE FirstFitNoFallback(_, _, _)
\* json_to_event without the else branch of its for loop.
FirstFitNoFallback(models, i, f) ==
    IF i > Len(models)
    THEN NoEvent
    ELSE IF models[i] \in f.fits
         THEN [model |-> models[i], sub |-> f.sub, sid |-> f.sid]
         ELSE FirstFitNoFallback(models, i + 1, f)

RECURSIVE FirstFit(_, _, _)
\* The for/else of json_to_event: the first model that parses, else Event.parse_obj,
\* whose failure is caught by the outer except (no event).
FirstFit(models, i, f) ==
    IF i > Len(models)
    THEN (IF BaseEvent \in f.fits
          THEN [model |-> BaseEvent, sub |-> f.sub, sid |-> f.sid]
          ELSE NoEvent)
    ELSE IF models[i] \in f.fits
         THEN [model |-> models[i], sub |-> f.sub, sid |-> f.sid]
         ELSE FirstFit(models, i + 1, f)

\* json_to_event, its return value (None is NoEvent). An exception while the
\* path is built or the models are tried is caught by the outer except.
JsonToEvent(f) ==
    IF f.kind # "obj" THEN NoEvent
    ELSE IF f.post = "" THEN NoEvent
    ELSE IF f.post = NotAString THEN NoEvent
    ELSE FirstFit(GetEventModel(EventName(f)), 1, f)

\* json_to_event dropping the identity it was given.
CallsAddResultNever(f, self_id) == FALSE

\* json_to_event, whether it hands the payload to ResultStore.add_result.
CallsAddResult(f, self_id) ==
    f.kind = "obj" /\ f.post = "" /\ self_id # NoId

\* ------------------------------------------------- ResultStore (utils.py)

\* ResultStore.add_result: the pending calls the payload resolves.
Matching(id, f) == {p \in pending : p.id = id /\ f.seq # 0 /\ p.seq = f.seq}

\* _handle_api_result: a failed status is raised as ActionFailed.
HandleApiResult(f) == IF f.status = "failed" THEN "ActionFailed" ELSE "ok"

\* ResultStore.add_result resolving a waiter: fetch returns the payload to the
\* caller, which leaves _call_api through _handle_api_result.
AddResultCalls(id, f) ==
    [k \in Callers |->
        IF \E p \in Matching(id, f) : p.k = k
        THEN [calls[k] EXCEPT !.pc = "done", !.outcome = HandleApiResult(f),
                              !.got = f.seq]
        ELSE calls[k]]

AddResultPending(id, f) == pending \ Matching(id, f)

\* ResultStore.fetch: the pending call record of caller k.
Fetch(k) == pending \cup {[id |-> calls[k].id, seq |-> calls[k].seq, k |-> k]}

\* ResultStore.fetch timing out: the record is removed.
FetchTimeout(k) == {p \in pending : p.k # k}

\* -------------------------------------------------------------------- Init
InitWith(configs) ==
    /\ config \in configs
    /\ connections = [i \in Ids |-> NoWs]
    /\ bots = [i \in Ids |-> NoBot]
    /\ rev = [r \in RevSocks |->
                [pc |-> "new", self_id |-> NoId, code |-> 0, reason |-> "",
                 nconn |-> 0, ndisc |-> 0]]
    /\ fwd = [l \in Links |->
                [pc |-> "none", bot |-> NoId, e |-> 0, cancelled |-> FALSE,
                 nconn |-> 0, ndisc |-> 0]]
    /\ sup = "init"
    /\ calls = [k \in Callers |->
                [pc |-> "idle", id |-> NoId, seq |-> 0, ws |-> NoWs, via |-> "",
                 outcome |-> "", got |-> 0]]
    /\ seq = 1
    /\ pending = {}
    /\ last = NoLast
    /\ registered = event_models
    /\ out = NoOut

\* bot_connect / bot_disconnect on Adapter.bots
BotConnect(id, bot) == [bots EXCEPT ![id] = bot]
BotDisconnect(id) == [bots EXCEPT ![id] = NoBot]
\* connections.pop(self_id, None)
Pop(id) == [connections EXCEPT ![id] = NoWs]


\* --------------------------------------------------- _handle_ws (reverse)

\* websocket.close(1008, reason) before accept, then return.
Reject(r, id, reason) ==
    /\ rev' = [rev EXCEPT ![r].pc = "rejected", ![r].self_id = id, ![r].code = 1008,
                          ![r].reason = reason]
    /\ UNCHANGED <<connections, bots>>

\* The handshake of a second session of an identity replacing the first.
HandleWsStartEvicts(r) ==
    /\ rev[r].pc = "new"
    /\ \A q \in RevSocks : q < r => rev[q].pc # "new"
    /\ \E id \in Ids \cup {NoId}, tok \in Tokens :
         IF id = NoId THEN Reject(r, id, "Missing X-Self-ID Header")
         ELSE IF CheckAccessToken(tok) # 0 THEN Reject(r, id, "Authorization")
         ELSE /\ rev' = [rev EXCEPT ![r].pc = "accept", ![r].self_id = id]
              /\ UNCHANGED <<connections, bots>>
    /\ last' = NoLast
    /\ out' = NoOut
    /\ UNCHANGED <<config, registered, fwd, sup, calls, seq, pending>>

\* Lines 171-190: the header checks, up to the await of websocket.accept().
\* (The handshakes arrive in the order of their numbers.)
HandleWsStart(r) ==
    /\ rev[r].pc = "new"
    /\ \A q \in RevSocks : q < r => rev[q].pc # "new"
    /\ \E id \in Ids \cup {NoId}, tok \in Tokens :
         IF id = NoId THEN Reject(r, id, "Missing X-Self-ID Header")
         ELSE IF bots[id] # NoBot THEN Reject(r, id, "Duplicate X-Self-ID")
         ELSE IF CheckAccessToken(tok) # 0 THEN Reject(r, id, "Authorization")
         ELSE /\ rev' = [rev EXCEPT ![r].pc = "accept", ![r].self_id = id]
              /\ UNCHANGED <<connections, bots>>
    /\ last' = NoLast
    /\ out' = NoOut
    /\ UNCHANGED <<config, registered, fwd, sup, calls, seq, pending>>

\* Lines 190-195: accept() returns and the connection is registered and
\* announced, or accept() raises and the handler ends with nothing registered.
HandleWsAccept(r) ==
    /\ rev[r].pc = "accept"
    /\ \E ok \in BOOLEAN :
         IF ok
         THEN /\ connections' = [connections EXCEPT ![rev[r].self_id] = RevWs(r)]
              /\ bots' = BotConnect(rev[r].self_id, RevBot(r))
              /\ rev' = [rev EXCEPT ![r].pc = "recv", ![r].nconn = @ + 1]
         ELSE /\ rev' = [rev EXCEPT ![r].pc = "failed"]
              /\ UNCHANGED <<connections, bots>>
    /\ last' = NoLast
    /\ out' = NoOut
    /\ UNCHANGED <<config, registered, fwd, sup, calls, seq, pending>>

\* The receive loop treating a payload without post_type as an error.
HandleWsReceiveStrict(r, f) ==
    /\ rev[r].pc = "recv"
    /\ IF f.kind \in {"error", "notjson"} \/ (f.kind = "obj" /\ f.post = "")
       THEN /\ rev' = [rev EXCEPT ![r].pc = "close"]
            /\ last' = [op |-> "rev", n |-> r, frame |-> f, sid |-> NoId,
                        event |-> NoEvent]
       ELSE /\ rev' = rev
            /\ last' = [op |-> "rev", n |-> r, frame |-> f, sid |-> NoId,
                        event |-> JsonToEvent(f)]
    /\ out' = NoOut
    /\ UNCHANGED <<config, registered, connections, bots, fwd, sup, calls, seq, pending>>

\* Lines 198-210: one turn of the receive loop on frame f. receive() or
\* json.loads raising leaves the loop for the finally block; json_to_event is
\* called without an identity, so a payload without post_type is no event and
\* is handed to nobody; an event is dispatched.
HandleWsReceive(r, f) ==
    /\ rev[r].pc = "recv"
    /\ IF f.kind \in {"error", "notjson"}
       THEN /\ rev' = [rev EXCEPT ![r].pc = "close"]
            /\ last' = [op |-> "rev", n |-> r, frame |-> f, sid |-> NoId,
                        event |-> NoEvent]
       ELSE /\ rev' = rev
            /\ last' = [op |-> "rev", n |-> r, frame |-> f, sid |-> NoId,
                        event |-> JsonToEvent(f)]
    /\ out' = NoOut
    /\ UNCHANGED <<config, registered, connections, bots, fwd, sup, calls, seq, pending>>

\* Lines 211-217: websocket.close() returns or raises (swallowed), then the
\* identity is popped from the registry and the bot is disconnected.
HandleWsClose(r) ==
    /\ rev[r].pc = "close"
    /\ \E closed \in BOOLEAN :
         rev' = [rev EXCEPT ![r].pc = "done", ![r].ndisc = @ + 1,
                            ![r].code = IF closed THEN 1000 ELSE 0]
    /\ connections' = Pop(rev[r].self_id)
    /\ bots' = BotDisconnect(rev[r].self_id)
    /\ last' = NoLast
    /\ out' = NoOut
    /\ UNCHANGED <<config, registered, fwd, sup, calls, seq, pending>>


\* ------------------------------------------- start_forward / stop_forward

\* Lines 260-271, registered by setup() only for a ForwardDriver: one task per
\* configured URL that URL() accepts.
StartForward ==
    /\ sup = "init"
    /\ config.forward
    /\ \E good \in SUBSET Links :
         fwd' = [l \in Links |->
                   IF l \in good THEN [fwd[l] EXCEPT !.pc = "connect"] ELSE fwd[l]]
    /\ sup' = "started"
    /\ last' = NoLast
    /\ out' = NoOut
    /\ UNCHANGED <<config, registered, connections, bots, rev, calls, seq, pending>>

\* task.cancel() on a task that catches the CancelledError as it catches an
\* Exception: the receive loop breaks and the task goes on to reconnect.
CancelledSwallowed(t) ==
    IF t.pc = "recv" THEN [t EXCEPT !.pc = "close"] ELSE t

\* task.cancel(): CancelledError is raised in the task at the await it is
\* suspended in. It is no Exception, so neither except clause of _forward_ws
\* catches it: at connect or sleep the task ends; at receive the finally block
\* runs; at the close() of the finally block the rest of the block is skipped.
Cancelled(t) ==
    IF t.pc \in {"connect", "sleep"} THEN [t EXCEPT !.pc = "done"]
    ELSE IF t.pc = "recv" THEN [t EXCEPT !.pc = "close", !.cancelled = TRUE]
    ELSE IF t.pc = "close" /\ ~t.cancelled THEN [t EXCEPT !.pc = "done"]
    ELSE t

\* Lines 274-276: every task that is not done is cancelled.
StopForward ==
    /\ sup = "started"
    /\ fwd' = [l \in Links |-> Cancelled(fwd[l])]
    /\ sup' = "stopping"
    /\ last' = NoLast
    /\ out' = NoOut
    /\ UNCHANGED <<config, registered, connections, bots, rev, calls, seq, pending>>

\* Line 278: gather returns once every task has ended.
StopForwardReturn ==
    /\ sup = "stopping"
    /\ \A l \in Links : fwd[l].pc \in {"none", "done"}
    /\ sup' = "stopped"
    /\ last' = NoLast
    /\ out' = NoOut
    /\ UNCHANGED <<config, registered, connections, bots, rev, fwd, calls, seq, pending>>

\* ------------------------------------------------ _forward_ws (forward)

\* The link giving up after a failed connect.
FwdConnectGivesUp(l) ==
    /\ fwd[l].pc = "connect"
    /\ fwd[l].e < MaxAttempts
    /\ \E ok \in BOOLEAN :
         fwd' = [fwd EXCEPT ![l].pc = IF ok THEN "recv" ELSE "done",
                            ![l].e = @ + 1, ![l].nconn = 0, ![l].ndisc = 0]
    /\ last' = NoLast
    /\ out' = NoOut
    /\ UNCHANGED <<config, registered, connections, bots, rev, sup, calls, seq, pending>>

\* Lines 291-303: self.websocket(request) returns a new connection or raises.
FwdConnect(l) ==
    /\ fwd[l].pc = "connect"
    /\ fwd[l].e < MaxAttempts
    /\ \E ok \in BOOLEAN :
         fwd' = [fwd EXCEPT ![l].pc = IF ok THEN "recv" ELSE "sleep",
                            ![l].e = @ + 1, ![l].nconn = 0, ![l].ndisc = 0]
    /\ last' = NoLast
    /\ out' = NoOut
    /\ UNCHANGED <<config, registered, connections, bots, rev, sup, calls, seq, pending>>

\* Lines 300 and 345: asyncio.sleep(RECONNECT_INTERVAL) returns.
FwdWake(l) ==
    /\ fwd[l].pc = "sleep"
    /\ fwd' = [fwd EXCEPT ![l].pc = "connect"]
    /\ last' = NoLast
    /\ out' = NoOut
    /\ UNCHANGED <<config, registered, connections, bots, rev, sup, calls, seq, pending>>

\* Lines 312-317: what the loop does with a parsed event.
IsHandshake(ev) == ev.model = LifecycleMetaEvent /\ ev.sub = "connect"

\* The receive loop treating a payload without post_type that resolves no
\* pending call as an error.
FwdReceiveStrict(l, f) ==
    /\ fwd[l].pc = "recv"
    /\ LET id == fwd[l].bot
           ev == JsonToEvent(f)
           bind == id = NoId /\ ev # NoEvent /\ IsHandshake(ev)
           dispatch == ev # NoEvent /\ (id # NoId \/ bind)
       IN  IF f.kind \in {"error", "notjson"}
           THEN /\ fwd' = [fwd EXCEPT ![l].pc = "close"]
                /\ last' = [op |-> "fwd", n |-> l, frame |-> f, sid |-> id,
                            event |-> NoEvent]
                /\ UNCHANGED <<connections, bots, calls, pending>>
           ELSE IF CallsAddResult(f, id) /\ Matching(id, f) = {}
           THEN /\ fwd' = [fwd EXCEPT ![l].pc = "close"]
                /\ last' = [op |-> "fwd", n |-> l, frame |-> f, sid |-> id,
                            event |-> NoEvent]
                /\ UNCHANGED <<connections, bots, calls, pending>>
           ELSE /\ calls' = IF CallsAddResult(f, id)
                            THEN AddResultCalls(id, f) ELSE calls
                /\ pending' = IF CallsAddResult(f, id)
                              THEN AddResultPending(id, f) ELSE pending
                /\ IF bind
                   THEN /\ connections' =
                             [connections EXCEPT ![ev.sid] = FwdWs(l, fwd[l].e)]
                        /\ bots' = BotConnect(ev.sid, FwdBot(l))
                        /\ fwd' = [fwd EXCEPT ![l].bot = ev.sid, ![l].nconn = @ + 1]
                   ELSE UNCHANGED <<connections, bots, fwd>>
                /\ last' = [op |-> "fwd", n |-> l, frame |-> f, sid |-> id,
                            event |-> IF dispatch THEN ev ELSE NoEvent]
    /\ out' = NoOut
    /\ UNCHANGED <<config, registered, rev, sup, seq>>

\* Lines 305-334: one turn of the receive loop on frame f. An exception
\* (receive() or json.loads raising) breaks the loop. json_to_event gets the
\* bound identity: a payload without post_type goes to ResultStore.add_result
\* when an identity is bound. Without a bound identity only the lifecycle
\* connect event is taken: it binds the identity, registers the connection and
\* announces the bot. An event is dispatched once an identity is bound.
FwdReceive(l, f) ==
    /\ fwd[l].pc = "recv"
    /\ LET id == fwd[l].bot
           ev == JsonToEvent(f)
           bind == id = NoId /\ ev # NoEvent /\ IsHandshake(ev)
           dispatch == ev # NoEvent /\ (id # NoId \/ bind)
       IN  IF f.kind \in {"error", "notjson"}
           THEN /\ fwd' = [fwd EXCEPT ![l].pc = "close"]
                /\ last' = [op |-> "fwd", n |-> l, frame |-> f, sid |-> id,
                            event |-> NoEvent]
                /\ UNCHANGED <<connections, bots, calls, pending>>
           ELSE /\ calls' = IF CallsAddResult(f, id)
                            THEN AddResultCalls(id, f) ELSE calls
                /\ pending' = IF CallsAddResult(f, id)
                              THEN AddResultPending(id, f) ELSE pending
                /\ IF bind
                   THEN /\ connections' =
                             [connections EXCEPT ![ev.sid] = FwdWs(l, fwd[l].e)]
                        /\ bots' = BotConnect(ev.sid, FwdBot(l))
                        /\ fwd' = [fwd EXCEPT ![l].bot = ev.sid, ![l].nconn = @ + 1]
                   ELSE UNCHANGED <<connections, bots, fwd>>
                /\ last' = [op |-> "fwd", n |-> l, frame |-> f, sid |-> id,
                            event |-> IF dispatch THEN ev ELSE NoEvent]
    /\ out' = NoOut
    /\ UNCHANGED <<config, registered, rev, sup, seq>>

\* The cleanup failing the calls that wait for a result on the connection.
FwdCloseFailsCalls(l) ==
    /\ fwd[l].pc = "close"
    /\ IF fwd[l].bot # NoId
       THEN /\ connections' = Pop(fwd[l].bot)
            /\ bots' = BotDisconnect(fwd[l].bot)
            /\ fwd' = [fwd EXCEPT ![l].pc = IF fwd[l].cancelled THEN "done" ELSE "sleep",
                                  ![l].bot = NoId, ![l].ndisc = @ + 1]
       ELSE /\ fwd' = [fwd EXCEPT ![l].pc = IF fwd[l].cancelled THEN "done" ELSE "sleep"]
            /\ UNCHANGED <<connections, bots>>
    /\ calls' = [k \in Callers |->
                   IF calls[k].pc = "wait" /\ calls[k].ws = FwdWs(l, fwd[l].e)
                   THEN [calls[k] EXCEPT !.pc = "done", !.outcome = "ApiNotAvailable"]
                   ELSE calls[k]]
    /\ pending' = {p \in pending : calls'[p.k].pc = "wait"}
    /\ last' = NoLast
    /\ out' = NoOut
    /\ UNCHANGED <<config, registered, rev, sup, seq>>

\* Lines 335-345: ws.close() returns or raises (swallowed); a bound identity is
\* popped from the registry and its bot disconnected; then the reconnect sleep,
\* or the end of the task when a CancelledError is passing through.
FwdClose(l) ==
    /\ fwd[l].pc = "close"
    /\ IF fwd[l].bot # NoId
       THEN /\ connections' = Pop(fwd[l].bot)
            /\ bots' = BotDisconnect(fwd[l].bot)
            /\ fwd' = [fwd EXCEPT ![l].pc = IF fwd[l].cancelled THEN "done" ELSE "sleep",
                                  ![l].bot = NoId, ![l].ndisc = @ + 1]
       ELSE /\ fwd' = [fwd EXCEPT ![l].pc = IF fwd[l].cancelled THEN "done" ELSE "sleep"]
            /\ UNCHANGED <<connections, bots>>
    /\ last' = NoLast
    /\ out' = NoOut
    /\ UNCHANGED <<config, registered, rev, sup, calls, seq, pending>>


\* ---------------------------------------------------------------- _call_api

\* ResultStore.get_seq: the number handed out, and the counter after it.
GetSeq == seq

NextSeq == seq + 1

\* The answers driver.request can give to the HTTP POST of lines 111-120:
\* it raises, or returns a status and a body ("" empty, "notjson", or a JSON
\* result whose status is "ok" or "failed").
HttpResponses ==
    {[raised |-> TRUE, status |-> 0, body |-> ""]}
    \cup [raised : {FALSE}, status : {200, 404}, body : {"", "notjson", "ok", "failed"}]

\* Lines 119-134: how the HTTP branch ends. Every exception that is not a
\* NetworkError, the ActionFailed of _handle_api_result included, is re-raised
\* as NetworkError.
HttpOutcome(resp) ==
    IF resp.raised THEN "NetworkError"
    ELSE IF resp.status < 200 \/ resp.status >= 300 THEN "NetworkError"
    ELSE IF resp.body \in {"", "notjson", "failed"} THEN "NetworkError"
    ELSE "ok"

Fail(k, id, err) ==
    /\ calls' = [calls EXCEPT ![k].pc = "done", ![k].id = id, ![k].outcome = err]
    /\ UNCHANGED seq

\* _call_api sending every request with the same sequence number.
CallApiStartSameSeq(k) ==
    /\ calls[k].pc = "idle"
    /\ \A j \in Callers : j < k => calls[j].pc # "idle"
    /\ \E id \in Ids :
         IF connections[id] # NoWs
         THEN /\ calls' = [calls EXCEPT ![k].pc = "send", ![k].id = id,
                                        ![k].seq = GetSeq, ![k].via = "ws",
                                        ![k].ws = connections[id]]
              /\ seq' = seq
         ELSE IF config.forward
         THEN IF id \notin config.api_root
              THEN Fail(k, id, "ApiNotAvailable")
              ELSE /\ calls' = [calls EXCEPT ![k].pc = "http", ![k].id = id,
                                             ![k].via = "http"]
                   /\ UNCHANGED seq
         ELSE Fail(k, id, "ApiNotAvailable")
    /\ last' = NoLast
    /\ out' = NoOut
    /\ UNCHANGED <<config, registered, connections, bots, rev, fwd, sup, pending>>

\* _call_api posting to the HTTP API without looking for the API root.
CallApiStartNoRootCheck(k) ==
    /\ calls[k].pc = "idle"
    /\ \A j \in Callers : j < k => calls[j].pc # "idle"
    /\ \E id \in Ids :
         IF connections[id] # NoWs
         THEN /\ calls' = [calls EXCEPT ![k].pc = "send", ![k].id = id,
                                        ![k].seq = GetSeq, ![k].via = "ws",
                                        ![k].ws = connections[id]]
              /\ seq' = NextSeq
         ELSE IF config.forward
         THEN /\ calls' = [calls EXCEPT ![k].pc = "http", ![k].id = id,
                                        ![k].via = "http"]
              /\ UNCHANGED seq
         ELSE Fail(k, id, "ApiNotAvailable")
    /\ last' = NoLast
    /\ out' = NoOut
    /\ UNCHANGED <<config, registered, connections, bots, rev, fwd, sup, pending>>

\* Lines 85-93 and 98-120: the registry lookup, then the request is handed to
\* the WebSocket (await websocket.send) or to the HTTP client (await
\* driver.request), or ApiNotAvailable is raised.
CallApiStart(k) ==
    /\ calls[k].pc = "idle"
    /\ \A j \in Callers : j < k => calls[j].pc # "idle"
    /\ \E id \in Ids :
         IF connections[id] # NoWs
         THEN /\ calls' = [calls EXCEPT ![k].pc = "send", ![k].id = id,
                                        ![k].seq = GetSeq, ![k].via = "ws",
                                        ![k].ws = connections[id]]
              /\ seq' = NextSeq
         ELSE IF config.forward
         THEN IF id \notin config.api_root
              THEN Fail(k, id, "ApiNotAvailable")
              ELSE /\ calls' = [calls EXCEPT ![k].pc = "http", ![k].id = id,
                                             ![k].via = "http"]
                   /\ UNCHANGED seq
         ELSE Fail(k, id, "ApiNotAvailable")
    /\ last' = NoLast
    /\ out' = NoOut
    /\ UNCHANGED <<config, registered, connections, bots, rev, fwd, sup, pending>>

\* Lines 93-95: websocket.send returns and ResultStore.fetch registers the
\* pending call, or websocket.send raises and the exception leaves _call_api.
CallApiSent(k) ==
    /\ calls[k].pc = "send"
    /\ \E ok \in BOOLEAN :
         IF ok
         THEN /\ calls' = [calls EXCEPT ![k].pc = "wait"]
              /\ pending' = Fetch(k)
         ELSE /\ calls' = [calls EXCEPT ![k].pc = "done",
                                        ![k].outcome = "TransportError"]
              /\ UNCHANGED pending
    /\ last' = NoLast
    /\ out' = NoOut
    /\ UNCHANGED <<config, registered, connections, bots, rev, fwd, sup, seq>>

\* Lines 94-96: ResultStore.fetch times out.
CallApiTimeout(k) ==
    /\ calls[k].pc = "wait"
    /\ calls' = [calls EXCEPT ![k].pc = "done", ![k].outcome = "NetworkError"]
    /\ pending' = FetchTimeout(k)
    /\ last' = NoLast
    /\ out' = NoOut
    /\ UNCHANGED <<config, registered, connections, bots, rev, fwd, sup, seq>>

\* Lines 120-134: driver.request answers.
CallApiHttp(k) ==
    /\ calls[k].pc = "http"
    /\ \E resp \in HttpResponses :
         calls' = [calls EXCEPT ![k].pc = "done", ![k].outcome = HttpOutcome(resp)]
    /\ last' = NoLast
    /\ out' = NoOut
    /\ UNCHANGED <<config, registered, connections, bots, rev, fwd, sup, seq, pending>>

\* ------------------------------------------------------------ _handle_http

\* The bodies of the webhook requests (NoFrame: request.content is None).
HttpBodies ==
    {NoFrame, NotJson, NonObject, BadEvent, Result(1, "ok"), FriendMessage("a")}

\* A webhook request: the header x-self-id, the key its x-signature header
\* was computed with over its body ("" when the header is absent), the body,
\* the bearer token of its authorization header.
HttpRequests ==
    [self_id : Ids \cup {NoId}, sigkey : Secrets, body : HttpBodies, tok : Tokens]

\* "sha1=" + hmac.new(key, body, "sha1").hexdigest()
Sign(key, body) == [key |-> key, body |-> body]
NoSig == [key |-> "", body |-> NoFrame]
XSignature(req) == IF req.sigkey = "" THEN NoSig ELSE Sign(req.sigkey, req.body)

\* _check_signature: the status of the rejection, 0 when the request passes.
CheckSignature(req) ==
    IF config.secret = "" THEN 0
    ELSE IF XSignature(req) = NoSig THEN 401
    ELSE IF req.body = NoFrame THEN 400
    ELSE IF XSignature(req) # Sign(config.secret, req.body) THEN 403
    ELSE 0

\* The answer of _handle_http: the status of the Response (0 when an
\* exception leaves the handler instead), whether json.loads was reached,
\* the event handed to bot.handle_event.
Answer(req, status, parsed, ev) ==
    [op |-> "http", req |-> req, status |-> status, parsed |-> parsed, event |-> ev]

\* The webhook checking the bearer token before the signature.
HandleHttpTokenFirst(req) ==
    /\ LET ev == JsonToEvent(req.body)
       IN  IF req.self_id = NoId
           THEN out' = Answer(req, 400, FALSE, NoEvent) /\ bots' = bots
           ELSE IF CheckAccessToken(req.tok) # 0
           THEN out' = Answer(req, CheckAccessToken(req.tok), FALSE, NoEvent)
                /\ bots' = bots
           ELSE IF CheckSignature(req) # 0
           THEN out' = Answer(req, CheckSignature(req), FALSE, NoEvent)
                /\ bots' = bots
           ELSE IF req.body = NoFrame
           THEN out' = Answer(req, 204, FALSE, NoEvent) /\ bots' = bots
           ELSE IF req.body.kind = "notjson"
           THEN out' = Answer(req, 0, TRUE, NoEvent) /\ bots' = bots
           ELSE /\ out' = Answer(req, 204, TRUE, ev)
                /\ bots' = IF ev # NoEvent /\ bots[req.self_id] = NoBot
                           THEN BotConnect(req.self_id, HttpBot) ELSE bots
    /\ last' = NoLast
    /\ UNCHANGED <<config, registered, connections, rev, fwd, sup, calls, seq, pending>>

\* Lines 138-168: the identity header, the signature and the token are
\* checked in this order; a body is parsed (json.loads raising leaves the
\* handler with the exception) and classified without an identity; an event
\* is handed to the bot of the identity, which is created and announced when
\* the identity has none; the answer is 204.
HandleHttp(req) ==
    /\ LET ev == JsonToEvent(req.body)
       IN  IF req.self_id = NoId
           THEN out' = Answer(req, 400, FALSE, NoEvent) /\ bots' = bots
           ELSE IF CheckSignature(req) # 0
           THEN out' = Answer(req, CheckSignature(req), FALSE, NoEvent)
                /\ bots' = bots
           ELSE IF CheckAccessToken(req.tok) # 0
           THEN out' = Answer(req, CheckAccessToken(req.tok), FALSE, NoEvent)
                /\ bots' = bots
           ELSE IF req.body = NoFrame
           THEN out' = Answer(req, 204, FALSE, NoEvent) /\ bots' = bots
           ELSE IF req.body.kind = "notjson"
           THEN out' = Answer(req, 0, TRUE, NoEvent) /\ bots' = bots
           ELSE /\ out' = Answer(req, 204, TRUE, ev)
                /\ bots' = IF ev # NoEvent /\ bots[req.self_id] = NoBot
                           THEN BotConnect(req.self_id, HttpBot) ELSE bots
    /\ last' = NoLast
    /\ UNCHANGED <<config, registered, connections, rev, fwd, sup, calls, seq, pending>>

\* ------------------------------------------------------------ the classifier

\* Lines 384-388: add_custom_model registers a model at the path of its
\* __event__ (a model registered there before is replaced).
AddCustomModel(p) ==
    /\ Cardinality(registered \ event_models) < MaxCustom
    /\ p \notin registered
    /\ registered' = registered \cup {p}
    /\ out' = NoOut
    /\ last' = NoLast
    /\ UNCHANGED <<config, connections, bots, rev, fwd, sup, calls, seq, pending>>

\* A call of get_event_model(q).
GetEventModelCall(q) ==
    /\ out' = [op |-> "models", q |-> q, result |-> GetEventModel(q)]
    /\ last' = NoLast
    /\ UNCHANGED <<config, registered, connections, bots, rev, fwd, sup, calls, seq,
                   pending>>

\* A call of json_to_event(f) without an identity.
JsonToEventCall(f) ==
    /\ out' = [op |-> "event", frame |-> f, event |-> JsonToEvent(f)]
    /\ last' = NoLast
    /\ UNCHANGED <<config, registered, connections, bots, rev, fwd, sup, calls, seq,
                   pending>>

\* ---------------------------------------------------------------- the system

\* The classifier and its registry.
Classifier ==
    \/ \E p \in CustomPaths : AddCustomModel(p)
    \/ \E q \in Queries : GetEventModelCall(q)
    \/ \E f \in ParseFrames : JsonToEventCall(f)

\* The webhook.
Http == \E req \in HttpRequests : HandleHttp(req)

\* The webhook requests of the runs of the three ingress paths: they carry
\* the configured token and a result or an event for identity "a".
IngressRequests ==
    {req \in HttpRequests :
        /\ req.self_id = "a" /\ req.sigkey = "" /\ req.tok = GoodToken
        /\ req.body \in {Result(1, "ok"), FriendMessage("a")}}

\* The forward links: start_forward, and the tasks of the links links (the
\* transport of any other configured URL never answers).
Forward(links, frames) ==
    \/ StartForward
    \/ \E l \in links : FwdConnect(l)
    \/ \E l \in links : FwdWake(l)
    \/ \E l \in links, f \in frames : FwdReceive(l, f)
    \/ \E l \in links : FwdClose(l)

\* The shutdown of the supervisor.
Shutdown ==
    \/ StopForward
    \/ StopForwardReturn

\* The reverse WebSocket handlers of the sockets socks.
Reverse_(socks, frames) ==
    \/ \E r \in socks : HandleWsStart(r)
    \/ \E r \in socks : HandleWsAccept(r)
    \/ \E r \in socks, f \in frames : HandleWsReceive(r, f)
    \/ \E r \in socks : HandleWsClose(r)

\* The API callers.
Calls ==
    \/ \E k \in Callers : CallApiStart(k)
    \/ \E k \in Callers : CallApiSent(k)
    \/ \E k \in Callers : CallApiTimeout(k)
    \/ \E k \in Callers : CallApiHttp(k)

\* The API callers ks.
Calling(ks) ==
    \/ \E k \in ks : CallApiStart(k)
    \/ \E k \in ks : CallApiSent(k)
    \/ \E k \in ks : CallApiTimeout(k)
    \/ \E k \in ks : CallApiHttp(k)

\* The call path: the callers, one reverse socket and the forward links, which
\* run until the end (the shutdown drops a link as a receive error does).
\* A reverse socket hands no payload to the ResultStore, so the resolution of
\* calls is also followed on the callers and the first forward link alone.
Init == InitWith(CallConfigs)

Next == Reverse_({1}, CallFrames) \/ Forward(Links, CallFrames) \/ Calls

Spec == Init /\ [][Next]_vars

InitCall == InitWith(CallConfigs)

NextCall == Forward({1}, CallFrames) \/ Calls

SpecCall == InitCall /\ [][NextCall]_vars

\* The connection life cycle: every reverse socket, the forward links and
\* the shutdown; no API call is made.
InitConn == InitWith(ConnConfigs)

NextConn == Reverse_(RevSocks, ConnFrames) \/ Forward(Links, ConnFrames) \/ Shutdown

SpecConn == InitConn /\ [][NextConn]_vars

\* The handshakes: every reverse socket and the first forward link, up to
\* the loss of the connection; no API call is made.
InitShake == InitWith(ShakeConfigs)

NextShake == Reverse_(RevSocks, ShakeFrames) \/ Forward({1}, ShakeFrames)

SpecShake == InitShake /\ [][NextShake]_vars

\* The webhook alone, under a ReverseDriver.
InitHttp == InitWith(HttpConfigs)

NextHttp == Http

SpecHttp == InitHttp /\ [][NextHttp]_vars

\* The three ingress paths and one caller: the webhook, the first reverse
\* socket, the first forward link.
InitIngress == InitWith(CallConfigs)

NextIngress ==
    \/ \E req \in IngressRequests : HandleHttp(req)
    \/ Reverse_({1}, IngressFrames)
    \/ Forward({1}, IngressFrames)
    \/ Calling({1})

SpecIngress == InitIngress /\ [][NextIngress]_vars

\* The classifier alone: registrations, lookups and parses.
InitModels == InitWith(PlainConfigs)

NextModels == Classifier

SpecModels == InitModels /\ [][NextModels]_vars

\* The forward links and their supervisor alone. The event loop runs every
\* task that can go on: a sleep ends, a connect and a close return or raise,
\* gather returns once the tasks have ended. Nothing makes a peer send.
InitLink == InitWith(ConnConfigs)

NextLink == Forward(Links, ConnFrames) \/ Shutdown

Fairness ==
    /\ \A l \in Links : WF_vars(FwdConnect(l))
    /\ \A l \in Links : WF_vars(FwdWake(l))
    /\ \A l \in Links : WF_vars(FwdClose(l))
    /\ WF_vars(StopForwardReturn)

SpecLink == InitLink /\ [][NextLink]_vars /\ Fairness


\* ================================================================= claims

\* The step is the cleanup of the session that owns connection w: the finally
\* block of its handler popping the registry (lines 216-217, 340-343).
OwnCleanup(w) ==
    \/ /\ w.kind = "rev"
       /\ rev[w.n].pc = "close"
       /\ rev'[w.n].pc = "done"
    \/ /\ w.kind = "fwd"
       /\ fwd[w.n].pc = "close"
       /\ fwd[w.n].e = w.e
       /\ fwd[w.n].bot # NoId
       /\ fwd'[w.n].bot = NoId

\* C1: once a connection is registered under an identity, the registry entry
\* of that identity changes only by that connection's own cleanup; no later
\* handshake with the same identity replaces it.
C1_RegisteredStays ==
    [][\A id \in Ids :
         (connections[id] # NoWs /\ connections'[id] # connections[id])
             => OwnCleanup(connections[id])]_vars

\* C2: a reverse handshake whose identity is present in the registry (or
\* among the known bots) is closed with 1008 without being accepted, and the
\* registry, the known bots, every other session and every announcement are
\* left as they were.
C2_DuplicateRejected ==
    [][\A r \in RevSocks :
         (/\ rev[r].pc = "new"
          /\ rev'[r].pc # "new"
          /\ rev'[r].self_id \in Ids
          /\ (connections[rev'[r].self_id] # NoWs \/ bots[rev'[r].self_id] # NoBot))
         => /\ rev'[r].pc = "rejected"
            /\ rev'[r].code = 1008
            /\ rev'[r].nconn = 0 /\ rev'[r].ndisc = 0
            /\ connections' = connections
            /\ bots' = bots
            /\ fwd' = fwd
            /\ \A q \in RevSocks \ {r} : rev'[q] = rev[q]]_vars

\* A handshake was rejected as a duplicate while the session registered under
\* its identity is in its receive loop.
C2_Witness ==
    \E r, q \in RevSocks :
        /\ rev[r].pc = "rejected"
        /\ rev[r].reason = "Duplicate X-Self-ID"
        /\ rev[q].pc = "recv"
        /\ rev[q].self_id = rev[r].self_id
        /\ connections[rev[r].self_id] = RevWs(q)


\* A payload without post_type: the shape of an API result.
IsResult(f) == f.kind = "obj" /\ f.post = ""

\* The step is a turn of a receive loop that handed a payload without
\* post_type to json_to_event together with a bound identity.
BoundResult == last'.op = "fwd" /\ last'.sid # NoId /\ IsResult(last'.frame)

\* Caller k waits for the result that the step's frame carries.
Awaits(k) ==
    /\ calls[k].pc = "wait"
    /\ calls[k].id = last'.sid
    /\ calls[k].seq = last'.frame.seq

\* C3: on a reverse connection registered under an identity, a payload
\* without post_type whose echo.seq is the sequence of a call pending for that
\* identity resolves the call with the payload.
C3_ReverseResultResolves ==
    [][(last'.op = "rev" /\ IsResult(last'.frame)
        /\ connections[rev[last'.n].self_id] = RevWs(last'.n))
       => \A k \in Callers :
            (/\ calls[k].pc = "wait"
             /\ calls[k].id = rev[last'.n].self_id
             /\ calls[k].seq = last'.frame.seq)
            => /\ calls'[k].pc = "done"
               /\ calls'[k].got = calls[k].seq]_vars

\* C4: a payload without post_type handed over with a bound identity
\* resolves the call pending under (identity, echo.seq) and removes its
\* record; when no call is pending under that key (after the resolution, for
\* one) the step changes nothing and yields no event; a call that has ended
\* never changes again.
C4_ResolvedExactlyOnce ==
    [][/\ BoundResult =>
            /\ \A k \in Callers :
                 IF Awaits(k)
                 THEN /\ calls'[k].pc = "done"
                      /\ calls'[k].got = calls[k].seq
                      /\ calls'[k].outcome \in {"ok", "ActionFailed"}
                      /\ \A p \in pending' : p.k # k
                 ELSE calls'[k] = calls[k]
            /\ last'.event = NoEvent
            /\ UNCHANGED <<connections, bots, rev, fwd, seq>>
            /\ (\A k \in Callers : ~Awaits(k)) => pending' = pending
       /\ \A k \in Callers : calls[k].pc = "done" => calls'[k] = calls[k]]_vars

\* The result of sequence 1 was delivered twice to the link of the caller's
\* identity: first as a failure, which ended the call, then as a success.
C4_Witness ==
    \E k \in Callers :
        /\ calls[k].pc = "done"
        /\ calls[k].got = 1
        /\ calls[k].outcome = "ActionFailed"
        /\ last.op = "fwd"
        /\ last.sid = calls[k].id
        /\ last.frame = Result(1, "ok")

\* C5: the calls made over WebSocket carry pairwise distinct sequence
\* numbers, and a caller that got a result got the one carrying its own.
C5_DistinctSeqs ==
    /\ \A j, k \in Callers :
         (j # k /\ calls[j].via = "ws" /\ calls[k].via = "ws")
             => calls[j].seq # calls[k].seq
    /\ \A k \in Callers : calls[k].got # 0 => calls[k].got = calls[k].seq

\* Two calls in flight on one connection of one identity, the later one
\* resolved while the earlier one still waits.
C5_Witness ==
    \E j, k \in Callers :
        /\ calls[j].pc = "wait"
        /\ calls[k].pc = "done"
        /\ calls[k].got = calls[k].seq
        /\ calls[j].seq < calls[k].seq
        /\ calls[j].id = calls[k].id
        /\ calls[j].ws = calls[k].ws

\* C6: a waiting call that ends without a result ends with NetworkError and
\* its pending record is gone; a result for its (identity, sequence) that is
\* received afterwards changes no call and no link and yields no event.
C6_TimeoutThenDropped ==
    [][/\ \A k \in Callers :
            (calls[k].pc = "wait" /\ calls'[k].pc = "done" /\ last'.op = "none")
            => /\ calls'[k].outcome = "NetworkError"
               /\ \A p \in pending' : p.k # k
       /\ \A k \in Callers :
            (/\ calls[k].pc = "done"
             /\ calls[k].via = "ws"
             /\ calls[k].outcome = "NetworkError"
             /\ BoundResult
             /\ last'.sid = calls[k].id
             /\ last'.frame.seq = calls[k].seq)
            => /\ UNCHANGED <<calls, pending, connections, bots, rev, fwd, seq>>
               /\ last'.event = NoEvent]_vars

\* A call timed out and a result for its identity and sequence was received
\* afterwards on the link bound to its identity.
C6_Witness ==
    \E k \in Callers :
        /\ calls[k].pc = "done"
        /\ calls[k].outcome = "NetworkError"
        /\ calls[k].via = "ws"
        /\ last.op = "fwd"
        /\ last.sid = calls[k].id
        /\ IsResult(last.frame)
        /\ last.frame.seq = calls[k].seq
        /\ \A p \in pending : p.k # k

\* C7 as claimed: when the connection a pending call was sent on is cleaned
\* up, the waiting caller fails with an error at that step.
C7_DropFailsCaller ==
    [][\A k \in Callers :
         (calls[k].pc = "wait" /\ OwnCleanup(calls[k].ws))
         => /\ calls'[k].pc = "done"
            /\ calls'[k].outcome \in
                 {"ApiNotAvailable", "NetworkError", "TransportError"}]_vars

\* C7 as amended: the cleanup of the connection a pending call was sent on
\* leaves the caller and the pending records as they were; a waiting call
\* ends only by the timeout (NetworkError) or by a result with its sequence
\* received on a link bound to its identity.
C7_DropLeavesCallPending ==
    [][/\ \A k \in Callers :
            (calls[k].pc = "wait" /\ OwnCleanup(calls[k].ws))
            => (calls'[k] = calls[k] /\ pending' = pending)
       /\ \A k \in Callers :
            (calls[k].pc = "wait" /\ calls'[k].pc # "wait")
            => \/ /\ last'.op = "none"
                  /\ calls'[k].outcome = "NetworkError"
                  /\ calls'[k].got = 0
               \/ /\ BoundResult
                  /\ Awaits(k)
                  /\ calls'[k].got = calls[k].seq]_vars

\* A call still waits although the session of the connection it was sent on
\* has been cleaned up.
C7_Witness ==
    \E k \in Callers :
        /\ calls[k].pc = "wait"
        /\ connections[calls[k].id] # calls[k].ws
        /\ \/ calls[k].ws.kind = "rev" /\ rev[calls[k].ws.n].pc = "done"
           \/ /\ calls[k].ws.kind = "fwd"
              /\ fwd[calls[k].ws.n].e = calls[k].ws.e
              /\ fwd[calls[k].ws.n].pc = "sleep"
              /\ fwd[calls[k].ws.n].ndisc = 1

\* C8: a call for an identity with no registry entry and no HTTP API root
\* ends at once with ApiNotAvailable: no transport is used, no sequence number
\* is taken, no pending record is made.
C8_NoChannel ==
    [][\A k \in Callers :
         (/\ calls[k].pc = "idle"
          /\ calls'[k].pc # "idle"
          /\ connections[calls'[k].id] = NoWs
          /\ calls'[k].id \notin config.api_root)
         => /\ calls'[k].pc = "done"
            /\ calls'[k].outcome = "ApiNotAvailable"
            /\ calls'[k].via = ""
            /\ calls'[k].seq = 0
            /\ seq' = seq
            /\ pending' = pending]_vars

\* A call ended with ApiNotAvailable under a ForwardDriver, where only the
\* missing API root decides.
C8_Witness ==
    \E k \in Callers :
        /\ config.forward
        /\ calls[k].pc = "done"
        /\ calls[k].outcome = "ApiNotAvailable"
        /\ calls[k].id \notin config.api_root

\* C9: a call whose send on the live WebSocket fails ends with NetworkError
\* and leaves no pending record.
C9_SendFailureIsNetworkError ==
    [][\A k \in Callers :
         (calls[k].pc = "send" /\ calls'[k].pc = "done")
         => /\ calls'[k].outcome = "NetworkError"
            /\ \A p \in pending' : p.k # k]_vars


\* C10: a session that was registered and announced and has left its receive
\* loop for good (the reverse handler has ended; the forward link is back at
\* the reconnect sleep or the connect, or its task has ended) has announced
\* its disconnect exactly once and its connection is no longer in the registry.
C10_ErrorCleansUp ==
    /\ \A r \in RevSocks :
         rev[r].pc = "done"
             => /\ rev[r].nconn = 1 /\ rev[r].ndisc = 1
                /\ \A id \in Ids : connections[id] # RevWs(r)
    /\ \A l \in Links :
         fwd[l].pc \in {"sleep", "connect", "done"}
             => /\ fwd[l].ndisc = fwd[l].nconn
                /\ \A id \in Ids :
                     ~(connections[id].kind = "fwd" /\ connections[id].n = l)

\* The step is a turn of the receive loop of a forward link that has no
\* identity bound, on a lifecycle connect event.
Handshake(l) ==
    /\ last'.op = "fwd" /\ last'.n = l /\ last'.sid = NoId
    /\ last'.frame.kind = "obj"
    /\ last'.frame.post = "meta_event" /\ last'.frame.detail = "lifecycle"
    /\ last'.frame.sub = "connect"

\* C11: every transport connect is made from the connecting state, which is
\* entered only at the start or after a reconnect wait; a failed connect goes
\* to the reconnect wait; whatever the number of attempts made, the next one
\* comes unless the supervisor is shut down or the peer keeps the connection;
\* a lifecycle connect event with self_id S on a link without identity
\* registers S with the link's transport and announces the bot, once for the
\* session.
C11_KeepsConnecting ==
    /\ [][\A l \in Links :
            /\ fwd'[l].e # fwd[l].e
                 => /\ fwd[l].pc = "connect"
                    /\ fwd'[l].e = fwd[l].e + 1
                    /\ fwd'[l].pc \in {"recv", "sleep"}
            /\ (fwd'[l].pc = "connect" /\ fwd[l].pc # "connect")
                 => fwd[l].pc \in {"none", "sleep"}
            /\ fwd[l].pc = "sleep" => fwd'[l].pc \in {"sleep", "connect", "done"}
            /\ Handshake(l)
                 => /\ connections'[last'.frame.sid] = FwdWs(l, fwd[l].e)
                    /\ bots'[last'.frame.sid] = FwdBot(l)
                    /\ fwd'[l].bot = last'.frame.sid
                    /\ fwd'[l].pc = "recv"
                    /\ fwd[l].nconn = 0 /\ fwd'[l].nconn = 1
                    /\ last'.event.sid = last'.frame.sid
            /\ fwd'[l].nconn # fwd[l].nconn
                 => (Handshake(l) \/ fwd'[l].nconn = 0)]_vars
    /\ \A l \in Links : \A n \in 0..(MaxAttempts - 1) :
         (fwd[l].e = n /\ fwd[l].pc \in {"connect", "sleep", "close"})
             ~> (fwd[l].e = n + 1 \/ sup # "started")

\* The last connect the bound allows succeeded after every earlier one had
\* failed, and the peer's lifecycle connect event bound identity "a".
C11_Witness ==
    \E l \in Links :
        /\ fwd[l].e = MaxAttempts
        /\ fwd[l].pc = "recv"
        /\ fwd[l].bot = "a"
        /\ fwd[l].nconn = 1 /\ fwd[l].ndisc = 0
        /\ connections["a"] = FwdWs(l, MaxAttempts)
        /\ bots["a"] = FwdBot(l)
        /\ sup = "started"

\* C12: once stop_forward has cancelled the tasks no task connects, sleeps or
\* receives again; stop_forward returns, normally, and only when every task
\* has ended.
C12_StopReturns ==
    /\ [](sup \in {"stopping", "stopped"}
            => \A l \in Links : fwd[l].pc \in {"none", "done", "close"})
    /\ [](sup = "stopped" => \A l \in Links : fwd[l].pc \in {"none", "done"})
    /\ (sup = "stopping") ~> (sup = "stopped")

\* stop_forward has returned after it cancelled a link in its receive loop
\* with an identity bound.
C12_Witness ==
    /\ sup = "stopped"
    /\ \E l \in Links :
         fwd[l].pc = "done" /\ fwd[l].cancelled /\ fwd[l].ndisc = 1

\* The step is a webhook request that passes the identity, signature and
\* token checks.
HttpPasses ==
    /\ out'.op = "http"
    /\ out'.req.self_id # NoId
    /\ config.secret # "" =>
          /\ out'.req.sigkey = config.secret
          /\ out'.req.body # NoFrame
    /\ config.token # "" => out'.req.tok = config.token

\* C13: a webhook request that passes the checks is answered with 204,
\* whatever its body.
C13_Always204 ==
    [][HttpPasses => out'.status = 204]_vars

\* The status the checks of the webhook give a request, in their order
\* (0: none fails).
C18_Status(req) ==
    IF req.self_id = NoId THEN 400
    ELSE IF config.secret # "" /\ req.sigkey = "" THEN 401
    ELSE IF config.secret # "" /\ req.body = NoFrame THEN 400
    ELSE IF config.secret # "" /\ req.sigkey # config.secret THEN 403
    ELSE IF config.token # "" /\ req.tok # config.token THEN 403
    ELSE 0

\* C18: a webhook request that fails a check is answered with the status of
\* the first check it fails, in the order identity header (400), signature
\* header (401), body (400), signature (403), token (403); its body is not
\* parsed, no event is dispatched, no bot is created and nothing else changes.
C18_ChecksInOrder ==
    [][(out'.op = "http" /\ C18_Status(out'.req) # 0)
       => /\ out'.status = C18_Status(out'.req)
          /\ ~out'.parsed
          /\ out'.event = NoEvent
          /\ UNCHANGED <<config, registered, connections, bots, rev, fwd, sup,
                         calls, seq, pending>>]_vars

\* A request with neither signature nor token was answered with 401 where a
\* secret and a token are configured.
C18_Witness ==
    /\ out.op = "http"
    /\ config.secret # "" /\ config.token # ""
    /\ out.req.self_id # NoId
    /\ out.req.sigkey = "" /\ out.req.tok = ""
    /\ out.status = 401

\* p is a segment-wise prefix of q, or q itself.
IsPrefix(p, q) == Len(p) <= Len(q) /\ SubSeq(q, 1, Len(p)) = p

\* C14: get_event_model(q) returns exactly the registered paths that are a
\* prefix of q or q itself, each once, from the longest to the shortest.
C14_LongestPrefixFirst ==
    out.op = "models" =>
        /\ {out.result[i] : i \in 1..Len(out.result)}
             = {p \in registered : IsPrefix(p, out.q)}
        /\ \A i, j \in 1..Len(out.result) :
             i < j => Len(out.result[i]) > Len(out.result[j])

\* A lookup of a path that is registered itself and has two registered
\* strict prefixes.
C14_Witness ==
    /\ out.op = "models"
    /\ out.q \in registered
    /\ Len(out.result) = 3

\* The candidates of frame f that parse it, as positions in the order of
\* get_event_model.
Fitting(f) ==
    {i \in 1..Len(GetEventModel(EventName(f))) :
        GetEventModel(EventName(f))[i] \in f.fits}

\* C19: json_to_event on an object with a post_type yields the event of the
\* first candidate, in the order of get_event_model, that parses it; when
\* none does, the base Event; when that fails too or the path cannot be
\* built, no event.
C19_FirstFitThenBase ==
    (out.op = "event" /\ out.frame.kind = "obj" /\ out.frame.post # "") =>
        IF out.frame.post = NotAString THEN out.event = NoEvent
        ELSE IF Fitting(out.frame) # {}
        THEN /\ out.event # NoEvent
             /\ \E i \in Fitting(out.frame) :
                  /\ \A j \in Fitting(out.frame) : i <= j
                  /\ out.event.model = GetEventModel(EventName(out.frame))[i]
        ELSE IF BaseEvent \in out.frame.fits THEN out.event.model = BaseEvent
        ELSE out.event = NoEvent

\* An object that none of its three candidates parses became a base Event.
C19_Witness ==
    /\ out.op = "event"
    /\ Len(GetEventModel(EventName(out.frame))) = 3
    /\ Fitting(out.frame) = {}
    /\ out.event.model = BaseEvent

\* C15: a payload without post_type is dispatched as an event on no ingress
\* path. On the webhook and on a reverse socket, and on a forward link when
\* no call is pending under its echo for the link's identity, the step
\* changes neither the registry, the bots, the calls nor the pending records,
\* and the link it arrived on stays in its receive loop.
C15_ResultIsNoEvent ==
    [][/\ (out'.op = "http" /\ IsResult(out'.req.body))
            => /\ out'.event = NoEvent
               /\ out'.status = 204
               /\ UNCHANGED <<connections, bots, rev, fwd, calls, pending, seq>>
       /\ (last'.op = "rev" /\ IsResult(last'.frame))
            => /\ last'.event = NoEvent
               /\ rev'[last'.n].pc = "recv"
               /\ UNCHANGED <<connections, bots, rev, fwd, calls, pending, seq>>
       /\ (last'.op = "fwd" /\ IsResult(last'.frame))
            => /\ last'.event = NoEvent
               /\ fwd'[last'.n].pc = "recv"
               /\ UNCHANGED <<connections, bots, rev, fwd, seq>>
               /\ (last'.sid = NoId \/ \A k \in Callers : ~Awaits(k))
                    => UNCHANGED <<calls, pending>>]_vars

\* A forward link bound to "a" received a result no call waits for while a
\* call of "a" is pending under another sequence.
C15_Witness ==
    /\ last.op = "fwd" /\ last.sid = "a"
    /\ last.frame = Result(2, "ok")
    /\ fwd[last.n].pc = "recv"
    /\ \E p \in pending : p.id = "a" /\ p.seq = 1

\* C16: a result carrying the (identity, sequence) of a call, received on the
\* connection the call uses after the request was handed to the transport
\* (the caller is suspended in the send or waits for the result), ends the
\* call with that result.
C16_ResultNeverLost ==
    [][\A k \in Callers :
         (/\ calls[k].pc \in {"send", "wait"}
          /\ BoundResult
          /\ last'.sid = calls[k].id
          /\ last'.frame.seq = calls[k].seq
          /\ calls[k].ws = FwdWs(last'.n, fwd[last'.n].e))
         => /\ calls'[k].pc = "done"
            /\ calls'[k].got = calls[k].seq]_vars

\* C17: on a forward link with no identity bound, a message that is not a
\* lifecycle connect event is not dispatched, registers and announces
\* nothing and leaves the link in its receive loop; an event is dispatched
\* on a forward link only when the bot of the session has been announced.
C17_PreHandshakeIgnored ==
    [][\A l \in Links :
         /\ (/\ fwd[l].pc = "recv" /\ fwd[l].bot = NoId
             /\ last'.op = "fwd" /\ last'.n = l
             /\ last'.frame.kind # "error"
             /\ ~Handshake(l))
            => /\ last'.event = NoEvent
               /\ fwd'[l] = fwd[l]
               /\ UNCHANGED <<connections, bots, calls, pending>>
         /\ (last'.op = "fwd" /\ last'.n = l /\ last'.event # NoEvent)
            => (fwd'[l].bot # NoId /\ fwd'[l].nconn = 1)]_vars

\* C20: a forward-link task that has ended has announced the disconnect of
\* every identity it announced and left none in the registry; after
\* stop_forward has returned the registry holds no connection of a forward
\* link.
C20_CancelCleansUp ==
    /\ \A l \in Links :
         fwd[l].pc = "done"
             => /\ fwd[l].ndisc = fwd[l].nconn
                /\ fwd[l].bot = NoId
    /\ sup = "stopped" => \A id \in Ids : connections[id].kind # "fwd"

====
